---------------------------- MODULE Spec2Model ----------------------------
(***************************************************************************)
(* A model of futoji's Formatter (src/src/formatter.ts): the transformer   *)
(* registry (addTransformer), the literal-delimiter scanner (format) and   *)
(* the pattern scanner (formatRegex).                                      *)
(*                                                                         *)
(* Strings are sequences of one-character strings.  Positions are the      *)
(* 0-based indices of the source; Slice, StartsWith and IndexOf are the    *)
(* JavaScript operations of the same name.                                 *)
(***************************************************************************)
EXTENDS Integers, Sequences, FiniteSets, TLC

VARIABLES
    host,          \* the host program: which options it registers, which texts it formats
    transformers,  \* Formatter.transformers
    stack,         \* the activation records of format, innermost last
    rx,            \* the activation record of formatRegex, or Idle
    input,         \* the text handed to format / formatRegex by the host
    outF,          \* what the top-level format call returned
    outR,          \* what the formatRegex call returned
    options,       \* history: the options handed to addTransformer, in order
    log            \* history: one record per attempt that reached validate

vars == <<host, transformers, stack, rx, input, outF, outR, options, log>>

(***************************************************************************)
(* Bounds of the model.                                                    *)
(***************************************************************************)
MaxLen == 4            \* longest input text of the markup, priority and firewall hosts
MaxLenPadding == 6     \* longest input text of the padding host
MaxLenPattern == 5     \* longest input text of the pattern host
MaxTransformers == 2   \* registry size of the markup and pattern hosts
MaxCompeting == 3      \* registry size of the priority and firewall hosts
MaxLenErase == 5       \* longest input text of the erase host
MaxLenFlat == 4        \* longest input text of the flat host
MaxFlat == 2           \* registry size of the flat host
MaxDepth == 4          \* deepest nesting of format calls that is followed

(***************************************************************************)
(* JavaScript strings.                                                     *)
(***************************************************************************)
Min(a, b) == IF a < b THEN a ELSE b

Max(a, b) == IF a < b THEN b ELSE a

\* text.slice(a, b) for 0 <= a
Slice(text, a, b) ==
    LET hi == Min(b, Len(text))
    IN  IF a >= hi THEN <<>> ELSE [i \in 1..(hi - a) |-> text[a + i]]

\* text.startsWith(s, at)
StartsWith(text, s, at) ==
    LET p == Min(at, Len(text))
    IN  /\ p + Len(s) <= Len(text)
        /\ \A i \in 1..Len(s) : text[p + i] = s[i]

\* text.indexOf(s, from)
IndexOf(text, s, from) ==
    LET hits == {i \in Min(from, Len(text))..Len(text) : StartsWith(text, s, i)}
    IN  IF hits = {} THEN -1 ELSE CHOOSE i \in hits : \A j \in hits : i <= j

RECURSIVE Join(_)
\* io.join('')
Join(io) == IF io = <<>> THEN <<>> ELSE Head(io) \o Join(Tail(io))

\* All strings over alphabet of length at most n
Strings(alphabet, n) == UNION {[1..m -> alphabet] : m \in 0..n}

(***************************************************************************)
(* Delimiters: a string or a RegExp (given by its source), or undefined.   *)
(***************************************************************************)
Str(s) == [t |-> "string", src |-> s]

Re(s) == [t |-> "regexp", src |-> s]

Undefined == [t |-> "undefined", src |-> <<>>]

\* JavaScript truthiness of a delimiter value, as used by a || b
Truthy(v) == v.t = "regexp" \/ (v.t = "string" /\ v.src # <<>>)

(***************************************************************************)
(* The host's callbacks.  A rewrite function is s |-> l + s + r, or the    *)
(* constant empty string; a validator accepts every span or none.          *)
(***************************************************************************)
Wrap(l, r) == [kind |-> "wrap", l |-> l, r |-> r]

Erase == [kind |-> "erase", l |-> <<>>, r |-> <<>>]

\* a rewrite function that returns at least the span
RewriteKeepsSpan(fn, span) == fn.l \o span \o fn.r

\* transformer.transformer(span)
Rewrite(fn, span) == IF fn.kind = "wrap" THEN fn.l \o span \o fn.r ELSE <<>>

\* transformer.validate(span)
Validate(v, span) == v = "all"

(***************************************************************************)
(* The options the hosts register (TransformerOptions).                    *)
(***************************************************************************)
Italic ==
    [name |-> "italic", symbol |-> Str(<<"*">>),
     transformer |-> Wrap(<<"<", "i", ">">>, <<"<", "/", "i", ">">>)]

ItalicLoose ==
    [name |-> "italicLoose", symbol |-> Str(<<"*">>), padding |-> FALSE,
     transformer |-> Wrap(<<"<", "i", ">">>, <<"<", "/", "i", ">">>)]

Bold ==
    [name |-> "bold", symbol |-> Str(<<"*", "*">>),
     transformer |-> Wrap(<<"<", "b", ">">>, <<"<", "/", "b", ">">>)]

\* registered with open alone
Code ==
    [name |-> "code", open |-> Str(<<"#">>), recursive |-> FALSE,
     transformer |-> Wrap(<<"<", "c", ">">>, <<"<", "/", "c", ">">>)]

\* rewrites _s_ to #s#, and lets the formatter scan that again
Quote ==
    [name |-> "quote", open |-> Str(<<"_">>), recursive |-> TRUE,
     transformer |-> Wrap(<<"#">>, <<"#">>)]

\* s |-> *s*, never scanned again
Echo ==
    [name |-> "echo", symbol |-> Str(<<"*">>), recursive |-> FALSE,
     transformer |-> Wrap(<<"*">>, <<"*">>)]

\* as Echo, but its validator rejects every span
Veto ==
    [name |-> "veto", symbol |-> Str(<<"*">>), recursive |-> FALSE,
     validate |-> "none", transformer |-> Wrap(<<"*">>, <<"*">>)]

\* opens with * and closes with #, and its validator rejects every span
VetoTick ==
    [name |-> "vetoTick", open |-> Str(<<"*">>), close |-> Str(<<"#">>),
     validate |-> "none", transformer |-> Wrap(<<"*">>, <<"#">>)]

\* symbol and open both given, with different values
Mixed ==
    [name |-> "mixed", symbol |-> Str(<<"*">>), open |-> Str(<<"*", "*">>),
     transformer |-> Wrap(<<"<", "m", ">">>, <<"<", "/", "m", ">">>)]

\* open /\[/ and close /\]/
Bracket ==
    [name |-> "bracket", open |-> Re(<<"\\", "[">>), close |-> Re(<<"\\", "]">>),
     recursive |-> FALSE,
     transformer |-> Wrap(<<"<", "r", ">">>, <<"<", "/", "r", ">">>)]

\* s |-> *s*, scanned again (recursive is left to its default)
EchoAgain ==
    [name |-> "echoAgain", symbol |-> Str(<<"*">>),
     transformer |-> Wrap(<<"*">>, <<"*">>)]

\* *s* is rewritten to the empty string
Strike == [name |-> "strike", symbol |-> Str(<<"*">>), transformer |-> Erase]

\* #s# is rewritten to the empty string, which is not scanned again
Cut ==
    [name |-> "cut", open |-> Str(<<"#">>), recursive |-> FALSE,
     transformer |-> Erase]

\* no transformer callback
NoCallback == [name |-> "noCallback", symbol |-> Str(<<"*">>)]

\* neither open nor symbol
NoDelimiter ==
    [name |-> "noDelimiter",
     transformer |-> Wrap(<<"<", "n", ">">>, <<"<", "/", "n", ">">>)]

Options(h) ==
    CASE h = "markup"   -> {Italic, Bold, Code, Mixed}
      [] h = "config"   -> {Italic, NoCallback, NoDelimiter}
      [] h = "runaway"  -> {EchoAgain, Italic}
      [] h = "erase"    -> {Strike, Cut}
      [] h = "rescan"   -> {Quote, Code}
      [] h = "flat"     -> {Veto, Echo, Code}
      [] h = "priority" -> {Veto, VetoTick, Bold, Italic, Echo}
      [] h = "firewall" -> {Quote, Code, Italic}
      [] h = "padding"  -> {Italic, ItalicLoose}
      [] h = "pattern"  -> {Bracket, Italic}

Alphabet(h) ==
    CASE h = "markup"   -> {"*", "#", "a"}
      [] h = "priority" -> {"*", "#", "a"}
      [] h = "firewall" -> {"*", "#", "_"}
      [] h = "padding"  -> {"*", "a", "b"}
      [] h = "pattern"  -> {"[", "]", "*", "a"}
      [] h = "config"   -> {"*", "a"}
      [] h = "runaway"  -> {"*", "a"}
      [] h = "erase"    -> {"*", "#", "a"}
      [] h = "rescan"   -> {"_", "#", "a"}
      [] h = "flat"     -> {"*", "#", "a"}

TextBound(h) ==
    CASE h = "markup"   -> MaxLen
      [] h = "priority" -> MaxLen
      [] h = "firewall" -> MaxLen
      [] h = "padding"  -> MaxLenPadding
      [] h = "pattern"  -> MaxLenPattern
      [] h = "config"   -> MaxLen
      [] h = "runaway"  -> MaxLen
      [] h = "erase"    -> MaxLenErase
      [] h = "rescan"   -> MaxLen
      [] h = "flat"     -> MaxLenFlat

RegistryBound(h) ==
    CASE h = "markup"   -> MaxTransformers
      [] h = "priority" -> MaxCompeting
      [] h = "firewall" -> MaxCompeting
      [] h = "padding"  -> 1
      [] h = "pattern"  -> MaxTransformers
      [] h = "config"   -> MaxTransformers
      [] h = "runaway"  -> MaxTransformers
      [] h = "erase"    -> MaxTransformers
      [] h = "rescan"   -> MaxTransformers
      [] h = "flat"     -> MaxFlat

Texts(h) == Strings(Alphabet(h), TextBound(h))

(***************************************************************************)
(* Registry: addTransformer.                                               *)
(***************************************************************************)
Get(params, f) == IF f \in DOMAIN params THEN params[f] ELSE Undefined

\* defaults whose close ignores symbol
DefaultsCloseFromOpen(params) ==
    [recursive |-> TRUE,
     open      |-> Get(params, "symbol"),
     close     |-> Get(params, "open"),
     padding   |-> TRUE,
     validate  |-> "all"]

\* the first argument of Object.assign in addTransformer
Defaults(params) ==
    [recursive |-> TRUE,
     open      |-> Get(params, "symbol"),
     close     |-> IF Truthy(Get(params, "symbol"))
                   THEN Get(params, "symbol") ELSE Get(params, "open"),
     padding   |-> TRUE,
     validate  |-> "all"]

\* Object.assign(target, source)
Assign(target, source) ==
    [f \in DOMAIN target \cup DOMAIN source |->
        IF f \in DOMAIN source THEN source[f] ELSE target[f]]

\* the specification addTransformer pushes
Stored(params) == Assign(Defaults(params), params)

Idle == [pc |-> "idle"]

None == [kind |-> "none", val |-> <<>>]

Returned(s) == [kind |-> "returned", val |-> s]

\* the call ended with an exception (a TypeError)
Raised == [kind |-> "raised", val |-> <<>>]

InitWith(h) ==
    /\ host = h
    /\ transformers = <<>>
    /\ stack = <<>>
    /\ rx = Idle
    /\ input = <<>>
    /\ outF = None
    /\ outR = None
    /\ options = <<>>
    /\ log = <<>>

Init == InitWith("markup")

Quiet == stack = <<>> /\ rx = Idle /\ outF = None /\ outR = None

AddTransformer(params) ==
    /\ Quiet
    /\ Len(transformers) < RegistryBound(host)
    /\ transformers' = Append(transformers, Stored(params))
    /\ options' = Append(options, params)
    /\ UNCHANGED <<host, stack, rx, input, outF, outR, log>>

(***************************************************************************)
(* Regular expressions.  The sources that occur are concatenations of      *)
(* literal characters, escaped characters and characters followed by the   *)
(* star quantifier; Compile parses such a source into atoms.               *)
(***************************************************************************)
RECURSIVE Compile(_)
\* new RegExp(src), for the sources described above
Compile(src) ==
    IF src = <<>> THEN <<>>
    ELSE LET esc  == Head(src) = "\\" /\ Len(src) >= 2
             ch   == IF esc THEN src[2] ELSE src[1]
             rest == IF esc THEN SubSeq(src, 3, Len(src)) ELSE Tail(src)
             star == rest # <<>> /\ Head(rest) = "*"
         IN  <<[ch |-> ch, star |-> star]>>
                 \o Compile(IF star THEN Tail(rest) ELSE rest)

\* the number of consecutive ch in s from 0-based position at
Run(s, ch, at) ==
    CHOOSE n \in 0..Max(0, Len(s) - at) :
        /\ \A i \in 1..n : s[at + i] = ch
        /\ at + n >= Len(s) \/ s[at + n + 1] # ch

RECURSIVE Ends(_, _, _)
\* where a match of atoms that begins at position at can end, in the order
\* a backtracking matcher tries them (a starred atom is greedy)
Ends(atoms, s, at) ==
    IF atoms = <<>> THEN <<at>>
    ELSE LET a    == Head(atoms)
             run  == Run(s, a.ch, at)
             lens == IF a.star THEN [i \in 1..(run + 1) |-> run + 1 - i]
                     ELSE IF run >= 1 THEN <<1>> ELSE <<>>
         IN  Join([i \in 1..Len(lens) |-> Ends(Tail(atoms), s, at + lens[i])])

\* new RegExp("^" + open + "(.+?)" + close).exec(s): the first match in
\* backtracking order; raw is the length of the match, group the capture
Exec(open, close, s) ==
    LET O       == Compile(open)
        C       == Compile(close)
        E1      == Ends(O, s, 0)
        caps(e) == {n \in 1..(Len(s) - e) : Ends(C, s, e + n) # <<>>}
        idx     == {i \in 1..Len(E1) : caps(E1[i]) # {}}
    IN  IF idx = {} THEN [ok |-> FALSE, raw |-> 0, group |-> <<>>]
        ELSE LET i  == CHOOSE x \in idx : \A y \in idx : x <= y
                 e1 == E1[i]
                 n  == CHOOSE x \in caps(e1) : \A y \in caps(e1) : x <= y
             IN  [ok    |-> TRUE,
                  raw   |-> Head(Ends(C, s, e1 + n)),
                  group |-> Slice(s, e1, e1 + n)]

\* new RegExp(src).test(s): an unanchored search
Test(src, s) == \E i \in 0..Len(s) : Ends(Compile(src), s, i) # <<>>

\* String(text[pos]): the character, or "undefined" past the end
CharAt(text, pos) ==
    IF pos < Len(text) THEN <<text[pos + 1]>>
    ELSE <<"u", "n", "d", "e", "f", "i", "n", "e", "d">>

\* the string startsWith and indexOf search for when handed the delimiter v
Text(v) ==
    IF v.t = "undefined" THEN <<"u", "n", "d", "e", "f", "i", "n", "e", "d">>
    ELSE v.src

(***************************************************************************)
(* format: the literal-delimiter scanner.                                  *)
(***************************************************************************)
\* n counts the iterations of the while loop that are done
NewFrame(text) ==
    [text |-> text, pos |-> 0, lastSlice |-> 0, io |-> <<>>, pc |-> "loop",
     matches |-> <<>>, k |-> 0, fromPos |-> 0, toPos |-> 0,
     start |-> 0, tr |-> 0, n |-> 0]

Top == stack[Len(stack)]

SetTop(f) == [stack EXCEPT ![Len(stack)] = f]

\* accept(string, offset) of a call whose text and cursor are text and pos
Accept(text, pos, string, offset) == StartsWith(text, string, pos + offset)

\* untilSymbol(symbol): the new cursor
UntilSymbol(text, pos, symbol) ==
    LET i == IndexOf(text, symbol, pos)
    IN  IF i < 0 THEN Len(text) ELSE i

RECURSIVE PaddingLoop(_, _, _, _)
\* while(accept(close, 1)) { pos += open.length + 1; untilSymbol(close) }
PaddingLoop(text, pos, open, close) ==
    IF Accept(text, pos, close, 1)
    THEN PaddingLoop(text, UntilSymbol(text, pos + Len(open) + 1, close), open, close)
    ELSE pos

\* the cursor after the search for the closing delimiter, from fromPos
ScanTo(text, fromPos, tr) ==
    LET first == UntilSymbol(text, fromPos, tr.close.src)
    IN  IF tr.padding THEN PaddingLoop(text, first, tr.open.src, tr.close.src)
        ELSE first

\* slice_to_io() run before the increment of pos
SliceToIoStale(f) ==
    [f EXCEPT !.pos = f.pos + 1,
              !.io = Append(f.io, Slice(f.text, f.lastSlice, f.pos)),
              !.lastSlice = f.pos,
              !.n = f.n + 1,
              !.pc = "loop"]

\* slice_to_io() after pos += 1
SliceToIo(f) ==
    [f EXCEPT !.pos = f.pos + 1,
              !.io = Append(f.io, Slice(f.text, f.lastSlice, f.pos + 1)),
              !.lastSlice = f.pos + 1,
              !.n = f.n + 1,
              !.pc = "loop"]

\* the transformers whose string opener is at the cursor, and all others
Matches(text, pos) ==
    SelectSeq([i \in 1..Len(transformers) |-> i],
              LAMBDA i : transformers[i].open.t = "string"
                            => IndexOf(text, transformers[i].open.src, pos) = pos)

Running == stack # <<>>

CallFormat(t) ==
    /\ Quiet
    /\ input' = t
    /\ stack' = <<NewFrame(t)>>
    /\ UNCHANGED <<host, transformers, rx, outF, outR, options, log>>

\* one test of the while condition that succeeds, and the filter
Filter ==
    /\ Running
    /\ Top.pc = "loop"
    /\ Top.pos < Len(Top.text)
    /\ LET m == Matches(Top.text, Top.pos)
           f == [Top EXCEPT !.start = Top.pos, !.tr = 0]
       IN  stack' = SetTop(IF m = <<>> THEN SliceToIo(f)
                           ELSE [f EXCEPT !.pc = "some", !.matches = m, !.k = 1])
    /\ UNCHANGED <<host, transformers, rx, input, outF, outR, options, log>>

\* the record of an attempt of transformer i in the call f: at is the cursor
\* at which its opener was accepted, pre the output that stands for the text
\* before at, res what became of the attempt
Event(i, f, at, fromPos, span, out, res) ==
    [fn |-> "format", tr |-> i, depth |-> Len(stack), text |-> f.text,
     start |-> f.start, at |-> at, fromPos |-> fromPos, span |-> span,
     out |-> out, res |-> res,
     pre |-> Join(f.io) \o Slice(f.text, f.lastSlice, at)]

\* the callback of matches.some for candidate k, up to the search for the closer
TryCandidate ==
    /\ Running
    /\ Top.pc = "some"
    /\ Top.k <= Len(Top.matches)
    /\ LET f    == Top
           i    == f.matches[f.k]
           tr   == transformers[i]
           next == [f EXCEPT !.k = f.k + 1]
       IN  IF tr.open.t = "regexp" \/ tr.close.t = "regexp"
           THEN /\ LET m == Exec(tr.open.src, tr.close.src, f.text)
                   IN  IF m.ok /\ m.group # <<>> /\ Validate(tr.validate, m.group)
                    THEN /\ stack' = SetTop(
                                [next EXCEPT !.pos = f.pos + m.raw,
                                             !.io = Append(f.io, Rewrite(tr.transformer, m.group)),
                                             !.lastSlice = f.pos + m.raw])
                         /\ log' = Append(log, Event(i, f, f.pos, f.pos, m.group,
                                                     Rewrite(tr.transformer, m.group),
                                                     "commit"))
                    ELSE stack' = SetTop(next) /\ log' = log
                /\ outF' = outF
           ELSE /\ log' = log
                /\ IF ~Accept(f.text, f.pos, Text(tr.open), 0)
                   THEN stack' = SetTop(next) /\ outF' = outF
                   ELSE IF tr.open.t = "undefined"
                   THEN stack' = <<>> /\ outF' = Raised    \* open.length of undefined
                   ELSE LET fromPos == f.pos + Len(tr.open.src)
                            toPos   == ScanTo(f.text, fromPos, tr)
                        IN  /\ stack' = SetTop([f EXCEPT !.pos = toPos, !.fromPos = fromPos,
                                                         !.toPos = toPos, !.pc = "decide"])
                            /\ outF' = outF
    /\ UNCHANGED <<host, transformers, rx, input, outR, options>>

\* io.push(parsed); pos += close.length; lastSlice = pos; return true
Commit(f, parsed) ==
    LET tr == transformers[f.matches[f.k]]
    IN  [f EXCEPT !.io = Append(f.io, parsed),
                  !.pos = f.pos + Len(tr.close.src),
                  !.lastSlice = f.pos + Len(tr.close.src),
                  !.tr = f.matches[f.k],
                  !.n = f.n + 1,
                  !.pc = "loop"]

\* whether the specification has a transformer callback to call
HasCallback(tr) == "transformer" \in DOMAIN tr

\* format(parsed) called whatever the flag says
RecursesAlways(tr) == TRUE

\* whether format(parsed) is called on the rewritten text
Recurses(tr) == tr.recursive

\* the nested call is handed the span
ParsedSpan(out, span) == span

\* the argument of the nested call this.format(parsed): the rewrite out of
\* the span, not the span
Parsed(out, span) == out

\* the cursor a validate veto leaves
VetoPos(f) == f.fromPos

\* the rest of the callback: validate, the closer, the rewrite
Decide ==
    /\ Running
    /\ Top.pc = "decide"
    /\ LET f    == Top
           i    == f.matches[f.k]
           tr   == transformers[i]
           span == Slice(f.text, f.fromPos, f.toPos)
           out  == IF HasCallback(tr) THEN Rewrite(tr.transformer, span) ELSE <<>>
           res  == IF ~Validate(tr.validate, span) THEN "veto"
                   ELSE IF ~Accept(f.text, f.pos, tr.close.src, 0) THEN "noclose"
                   ELSE IF HasCallback(tr) THEN "commit"
                   ELSE "throw"
       IN  /\ log' = Append(log, Event(i, f, f.fromPos - Len(tr.open.src), f.fromPos,
                                       span, out, res))
           /\ CASE res = "veto" ->
                     stack' = SetTop([f EXCEPT !.pos = VetoPos(f), !.k = f.k + 1,
                                               !.pc = "some"])
                [] res = "noclose" ->
                     stack' = SetTop([f EXCEPT !.k = f.k + 1, !.pc = "some"])
                [] res = "commit" ->
                     IF Recurses(tr)
                     THEN /\ Len(stack) < MaxDepth
                          /\ stack' = Append(SetTop([f EXCEPT !.pc = "call"]),
                                             NewFrame(Parsed(out, span)))
                     ELSE stack' = SetTop(Commit(f, out))
                [] res = "throw" -> stack' = <<>>
           /\ outF' = IF res = "throw" THEN Raised ELSE outF
    /\ UNCHANGED <<host, transformers, rx, input, outR, options>>

\* no candidate returned true: pos += 1; slice_to_io()
NoMatch ==
    /\ Running
    /\ Top.pc = "some"
    /\ Top.k > Len(Top.matches)
    /\ stack' = SetTop(SliceToIo(Top))
    /\ UNCHANGED <<host, transformers, rx, input, outF, outR, options, log>>

\* the while condition fails: return io.join('')
Return ==
    /\ Running
    /\ Top.pc = "loop"
    /\ Top.pos >= Len(Top.text)
    /\ LET result == Join(Top.io)
       IN  IF Len(stack) = 1
           THEN /\ outF' = Returned(result)
                /\ stack' = <<>>
           ELSE /\ outF' = outF
                /\ stack' = [i \in 1..(Len(stack) - 1) |->
                                IF i = Len(stack) - 1
                                THEN Commit(stack[i], result) ELSE stack[i]]
    /\ UNCHANGED <<host, transformers, rx, input, outR, options, log>>

(***************************************************************************)
(* formatRegex: the pattern scanner.                                       *)
(***************************************************************************)
\* normalizePattern(pattern): the source of a RegExp; of a string, the
\* string with a backslash before its first character
NormalizePattern(pattern) ==
    IF pattern.t = "regexp" \/ pattern.src = <<>> THEN pattern.src
    ELSE <<"\\">> \o pattern.src

\* the state after a callback of this.transformers.some that matched m and
\* passed validate; skip is the outcome of the padding test
RegexHit(text, st, i, m, out, skip) ==
    [pos     |-> IF skip THEN st.pos + m.raw + 1 ELSE st.pos + m.raw,
     lastPos |-> IF skip THEN st.pos ELSE st.pos + m.raw,
     io      |-> IF skip THEN Append(st.io, Slice(text, st.lastPos, st.pos))
                 ELSE Append(Append(st.io, Slice(text, st.lastPos, st.pos)), out),
     hit     |-> ~skip,
     calls   |-> Append(st.calls,
                        [fn |-> "formatRegex", tr |-> i, depth |-> 1, text |-> text,
                         start |-> st.pos, at |-> st.pos, fromPos |-> st.pos,
                         span |-> m.group, out |-> out,
                         res |-> IF skip THEN "skip" ELSE "commit",
                         pre |-> Join(st.io) \o Slice(text, st.lastPos, st.pos)])]

\* the callback, given the result m of matcher.exec(text.slice(pos))
RegexMatched(text, st, i, tr, m) ==
    IF m.ok /\ m.group # <<>> /\ Validate(tr.validate, m.group)
    THEN RegexHit(text, st, i, m, Rewrite(tr.transformer, m.group),
                  tr.padding /\ Test(NormalizePattern(tr.close),
                                     CharAt(text, st.pos + m.raw)))
    ELSE st

\* the callback of this.transformers.some for transformer i; st holds pos,
\* lastPos, io, whether the callback returned true, and the rewrite calls made
RegexTry(text, st, i) ==
    RegexMatched(text, st, i, transformers[i],
                 Exec(NormalizePattern(transformers[i].open),
                      NormalizePattern(transformers[i].close),
                      Slice(text, st.pos, Len(text))))

RECURSIVE RegexSome(_, _, _)
\* this.transformers.some(...) from transformer i on
RegexSome(text, st, i) ==
    IF i > Len(transformers) \/ st.hit THEN st
    ELSE RegexSome(text, RegexTry(text, st, i), i + 1)

\* an iteration that leaves pos alone when nothing matched
RegexStalls(r) == [r EXCEPT !.hit = FALSE]

\* if(!anyMatched) pos += 1, and the flag cleared for the next iteration
RegexAdvance(r) ==
    [r EXCEPT !.pos = IF r.hit THEN r.pos ELSE r.pos + 1, !.hit = FALSE]

\* the body of the while loop, run with the locals in st
RegexLoopBody(st) ==
    RegexAdvance(RegexSome(st.text,
                           [pos |-> st.pos, lastPos |-> st.lastPos, io |-> st.io,
                            hit |-> FALSE, calls |-> <<>>],
                           1))

RECURSIVE RegexLoop(_, _)
\* the while loop of formatRegex from the state st on, and the final push
RegexLoop(text, st) ==
    IF st.pos >= Len(text)
    THEN Join(Append(st.io, Slice(text, st.lastPos, st.pos)))
    ELSE RegexLoop(text, RegexAdvance(RegexSome(text, st, 1)))

\* formatRegex(text), as a function
FormatRegexOf(text) ==
    RegexLoop(text, [pos |-> 0, lastPos |-> 0, io |-> <<>>, hit |-> FALSE,
                     calls |-> <<>>])

CallFormatRegex ==
    /\ stack = <<>>
    /\ rx = Idle
    /\ outF.kind = "returned"
    /\ outR = None
    /\ rx' = [pc |-> "loop", text |-> input, pos |-> 0, lastPos |-> 0, io |-> <<>>,
              n |-> 0]
    /\ UNCHANGED <<host, transformers, stack, input, outF, outR, options, log>>

\* the locals of formatRegex after an iteration that ended in state r
RegexAfter(r) ==
    [rx EXCEPT !.pos = r.pos, !.lastPos = r.lastPos, !.io = r.io, !.n = rx.n + 1]

\* one iteration of the while loop of formatRegex
RegexIterate ==
    /\ rx.pc = "loop"
    /\ rx.pos < Len(rx.text)
    /\ rx' = RegexAfter(RegexLoopBody(rx))
    /\ log' = log \o RegexLoopBody(rx).calls
    /\ UNCHANGED <<host, transformers, stack, input, outF, outR, options>>

\* io.push(text.slice(lastPos, pos)); return io.join('')
RegexReturn ==
    /\ rx.pc = "loop"
    /\ rx.pos >= Len(rx.text)
    /\ outR' = Returned(Join(Append(rx.io, Slice(rx.text, rx.lastPos, rx.pos))))
    /\ rx' = Idle
    /\ UNCHANGED <<host, transformers, stack, input, outF, options, log>>

NextFormat ==
    \/ \E params \in Options(host) : AddTransformer(params)
    \/ \E t \in Texts(host) : CallFormat(t)
    \/ Filter
    \/ TryCandidate
    \/ Decide
    \/ NoMatch
    \/ Return

Next ==
    \/ NextFormat
    \/ CallFormatRegex
    \/ RegexIterate
    \/ RegexReturn

Spec == Init /\ [][Next]_vars

SpecPriority == InitWith("priority") /\ [][NextFormat]_vars

SpecPadding == InitWith("padding") /\ [][NextFormat]_vars

SpecFirewall == InitWith("firewall") /\ [][NextFormat]_vars

SpecPattern == InitWith("pattern") /\ [][Next]_vars

SpecConfig == InitWith("config") /\ [][NextFormat]_vars

SpecRunaway == InitWith("runaway") /\ [][NextFormat]_vars

SpecErase == InitWith("erase") /\ [][NextFormat]_vars

SpecRescan == InitWith("rescan") /\ [][Next]_vars

\* a call of format, once made, runs on: JavaScript runs a call to completion
SpecFlat ==
    /\ InitWith("flat")
    /\ [][Next]_vars
    /\ WF_vars(Filter \/ TryCandidate \/ Decide \/ NoMatch \/ Return)

(***************************************************************************)
(* Properties.                                                             *)
(***************************************************************************)
IsSubstring(a, b) == \E i \in 0..(Len(b) - Len(a)) : StartsWith(b, a, i)

Literal(tr) == tr.open.t = "string" /\ tr.close.t = "string"

Registered == 1..Len(transformers)

Least(S) == CHOOSE x \in S : \A y \in S : x <= y

\* the span transformer tr would hand to validate when tried at cursor p
SpanAt(tr, text, p) ==
    Slice(text, p + Len(tr.open.src), ScanTo(text, p + Len(tr.open.src), tr))

\* tr, tried with the cursor at p, would return true: its opener is at p,
\* validate accepts the span and the closer is where the search stopped
CouldSucceed(tr, text, p) ==
    /\ Literal(tr)
    /\ Accept(text, p, tr.open.src, 0)
    /\ Validate(tr.validate, SpanAt(tr, text, p))
    /\ Accept(text, ScanTo(text, p + Len(tr.open.src), tr), tr.close.src, 0)

\* tr, tried with the cursor at p, would be vetoed by its validator
WouldVeto(tr, text, p) ==
    /\ Literal(tr)
    /\ Accept(text, p, tr.open.src, 0)
    /\ ~Validate(tr.validate, SpanAt(tr, text, p))

\* the transformers that could succeed at the cursor the last iteration began with
Winners(f) == {i \in Registered : CouldSucceed(transformers[i], f.text, f.start)}

\* the innermost call stands between two iterations, one at least done
AfterIteration == Running /\ Top.pc = "loop" /\ Top.pos > Top.start

\* C1: with an empty registry format returns its input unchanged.
Identity ==
    (transformers = <<>> /\ outF.kind = "returned") => outF.val = input

IdentityWitness ==
    /\ transformers = <<>>
    /\ outF.kind = "returned"
    /\ input = <<"*", "a", "*", "#">>

\* C2: when two or more literal transformers could succeed at the cursor of
\* an iteration, the iteration commits the rewrite of the earliest registered.
PriorityLaw ==
    (AfterIteration /\ Cardinality(Winners(Top)) >= 2)
        => Top.tr = Least(Winners(Top))

\* C3: what the rewrite function of a non-recursive transformer returned is
\* part of the result of the top-level format call, character for character.
Firewall ==
    outF.kind = "returned" =>
        \A n \in 1..Len(log) :
            (log[n].res = "commit" /\ ~transformers[log[n].tr].recursive)
                => IsSubstring(log[n].out, outF.val)

\* a non-recursive transformer matched inside the re-scan of another one's
\* output, and its span holds a complete span of a third transformer
FirewallWitness ==
    /\ outF.kind = "returned"
    /\ \E n \in 1..Len(log) :
          /\ log[n].res = "commit"
          /\ log[n].depth >= 2
          /\ ~transformers[log[n].tr].recursive
          /\ \E j \in Registered :
                /\ j # log[n].tr
                /\ \E p \in 0..Len(log[n].out) :
                      CouldSucceed(transformers[j], log[n].out, p)

\* C4: a single transformer with symbol * and padding never rewrites a span
\* that contains **.
PaddingNoDoubled ==
    (/\ Len(transformers) = 1
     /\ transformers[1].open = Str(<<"*">>)
     /\ transformers[1].close = Str(<<"*">>)
     /\ transformers[1].padding)
        => \A n \in 1..Len(log) :
              log[n].res = "commit" => ~IsSubstring(<<"*", "*">>, log[n].span)

\* C5: an attempt whose closing delimiter occurs nowhere after its opener
\* rewrites nothing, and the opener stands in the result where it stood in
\* the input, after the output for the text before it.
UnterminatedVerbatim ==
    outF.kind = "returned" =>
        \A n \in 1..Len(log) :
            (/\ log[n].depth = 1
             /\ Literal(transformers[log[n].tr])
             /\ IndexOf(log[n].text, transformers[log[n].tr].close.src,
                        log[n].fromPos) < 0)
                => /\ log[n].res # "commit"
                   /\ StartsWith(outF.val,
                                 log[n].pre \o transformers[log[n].tr].open.src, 0)

\* C6: after a validate veto at the cursor of an iteration, the earliest
\* later transformer that could succeed at that cursor is committed, for the
\* span that starts at that cursor.
VetoFallsThrough ==
    (/\ AfterIteration
     /\ Winners(Top) # {}
     /\ \E a \in Registered :
           /\ a < Least(Winners(Top))
           /\ WouldVeto(transformers[a], Top.text, Top.start))
        => /\ Top.tr = Least(Winners(Top))
           /\ Top.fromPos = Top.start + Len(transformers[Top.tr].open.src)

\* C7: when every transformer is non-recursive and rewrites s to
\* open + s + close, format returns its input.
EchoIdentity ==
    (/\ outF.kind = "returned"
     /\ \A i \in Registered :
           /\ Literal(transformers[i])
           /\ ~transformers[i].recursive
           /\ transformers[i].transformer
                = Wrap(transformers[i].open.src, transformers[i].close.src))
        => outF.val = input

\* C8: for a registry of literal delimiters formatRegex returns what format
\* returns.
SameSemantics ==
    (/\ outF.kind = "returned"
     /\ outR.kind = "returned"
     /\ \A i \in Registered : Literal(transformers[i]))
        => outR.val = outF.val

\* C9: format rewrites a pattern-delimited region where it occurs, at the
\* cursor, and so returns what formatRegex returns for a registry of pattern
\* transformers.
PatternAtCursor ==
    (\A i \in Registered : ~Literal(transformers[i])) =>
        /\ \A n \in 1..Len(log) :
              log[n].fn = "format" =>
                  Exec(transformers[log[n].tr].open.src,
                       transformers[log[n].tr].close.src,
                       Slice(log[n].text, log[n].at, Len(log[n].text))).ok
        /\ (outF.kind = "returned" /\ outR.kind = "returned")
              => outF.val = outR.val

\* C10 as stated: a specification registered without close has close = open.
CloseEqualsOpen ==
    \A i \in Registered :
        "close" \notin DOMAIN options[i] => transformers[i].close = transformers[i].open

\* C10: a specification registered without close has for close the symbol
\* when a symbol was given, and the open otherwise; close = open when only
\* one of symbol and open was given.
CloseFallback ==
    \A i \in Registered :
        "close" \notin DOMAIN options[i] =>
            /\ transformers[i].close
                 = IF "symbol" \in DOMAIN options[i] THEN options[i].symbol
                   ELSE options[i].open
            /\ ~("symbol" \in DOMAIN options[i] /\ "open" \in DOMAIN options[i])
                  => transformers[i].close = transformers[i].open

\* symbol and open were both given, with different values, and no close
CloseFallbackWitness ==
    \E i \in Registered :
        /\ "close" \notin DOMAIN options[i]
        /\ "symbol" \in DOMAIN options[i]
        /\ "open" \in DOMAIN options[i]
        /\ options[i].symbol # options[i].open
        /\ transformers[i].close = options[i].symbol

\* the options name a transformer callback and an opening delimiter
WellFormed(params) ==
    /\ "transformer" \in DOMAIN params
    /\ "open" \in DOMAIN params \/ "symbol" \in DOMAIN params

\* C11: options without a transformer callback, or with neither open nor
\* symbol, are refused by addTransformer: no such specification is ever in
\* the registry.
ConfigRejected ==
    \A i \in Registered : WellFormed(options[i])

\* C12: the nesting of format calls is bounded, so every call returns: no
\* call of format runs inside a call of format on the same text.  (format is
\* a function of the registry and the text, so a call nested in a call on
\* the same text nests such a call again, without end.)
RecursionBounded ==
    \A i, j \in 1..Len(stack) : i < j => stack[i].text # stack[j].text

\* where the region of the attempt e ends: after its closing delimiter
RegionEnd(e) == e.fromPos + Len(e.span) + Len(transformers[e.tr].close.src)

\* the input without the regions of the logged attempts
Gaps ==
    Join([n \in 1..(Len(log) + 1) |->
            Slice(input,
                  IF n = 1 THEN 0 ELSE RegionEnd(log[n - 1]),
                  IF n = Len(log) + 1 THEN Len(input) ELSE log[n].at)])

SoleUnterminated(f) ==
    LET m == Matches(f.text, f.start)
    IN  /\ Len(m) = 1
        /\ Literal(transformers[m[1]])
        /\ Accept(f.text, f.start, transformers[m[1]].open.src, 0)
        /\ IndexOf(f.text, transformers[m[1]].close.src,
                   f.start + Len(transformers[m[1]].open.src)) < 0
        /\ Validate(transformers[m[1]].validate, SpanAt(transformers[m[1]], f.text, f.start))

\* C14: an iteration whose only candidate is unterminated ends with the
\* cursor one past the cursor it began with.
UnterminatedConsumesNothing ==
    (AfterIteration /\ SoleUnterminated(Top)) => Top.pos = Top.start + 1

\* a step in which a nested call of format returns to its caller
NestedReturn == Len(stack) >= 2 /\ Len(stack') = Len(stack) - 1

\* C15: a nested call of format was handed the rewrite of the raw span of
\* its caller, and when it returns the caller appends what it returned and
\* moves cursor and emit boundary past the closing delimiter, so the
\* fragment is not scanned by the caller.
RescanOfRewrite ==
    [][NestedReturn =>
          LET child  == stack[Len(stack)]
              parent == stack[Len(stack) - 1]
              tr     == transformers[parent.matches[parent.k]]
              after  == stack'[Len(stack) - 1]
          IN  /\ tr.recursive
              /\ child.text = Rewrite(tr.transformer,
                                      Slice(parent.text, parent.fromPos, parent.toPos))
              /\ after.io = Append(parent.io, Join(child.io))
              /\ after.pos = parent.toPos + Len(tr.close.src)
              /\ after.lastSlice = after.pos]_vars

\* a recursive transformer committed a span that holds a complete span of
\* another transformer, and the scan of its rewrite committed a span too
RescanOfRewriteWitness ==
    /\ outF.kind = "returned"
    /\ \E n, m \in 1..Len(log) :
          /\ log[n].depth = 1 /\ log[n].res = "commit"
          /\ transformers[log[n].tr].recursive
          /\ log[m].depth = 2 /\ log[m].res = "commit"
          /\ log[m].text = log[n].out
          /\ \E j \in Registered : \E p \in 0..Len(log[n].span) :
                j # log[n].tr /\ CouldSucceed(transformers[j], log[n].span, p)

\* C16: what formatRegex appends for a span of a recursive transformer is
\* the result of a scan of the rewritten text, hence a text a scan leaves
\* as it is: no region of a registered transformer is left in it.
RegexRescans ==
    \A n \in 1..Len(log) :
        (/\ log[n].fn = "formatRegex"
         /\ log[n].res = "commit"
         /\ transformers[log[n].tr].recursive)
            => FormatRegexOf(log[n].out) = log[n].out

\* C17: between two iterations of a call of format, and when it returns,
\* the cursor is within the text: 0 <= pos <= len(text).
CursorBound ==
    \A i \in 1..Len(stack) :
        stack[i].pc = "loop" => (0 <= stack[i].pos /\ stack[i].pos <= Len(stack[i].text))

\* C18: no step of a call of format lowers its cursor.
MonotoneCursor ==
    [][\A i \in 1..Min(Len(stack), Len(stack')) : stack'[i].pos >= stack[i].pos]_vars

\* no registered transformer is recursive
AllFlat == \A i \in Registered : ~transformers[i].recursive

\* every call of format that has done an iteration has its cursor beyond
\* the cursor that iteration began with, and has done at most len(text)
\* iterations
FormatAdvances ==
    \A i \in 1..Len(stack) :
        /\ (stack[i].pc = "loop" /\ stack[i].n > 0) => stack[i].pos > stack[i].start
        /\ stack[i].n <= Len(stack[i].text)

\* an iteration of formatRegex ends with the cursor beyond where it began,
\* and is one of at most len(text)
RegexAdvances ==
    (rx.pc = "loop" /\ rx'.pc = "loop" /\ rx'.n # rx.n)
        => (rx'.pos > rx.pos /\ rx'.n <= Len(rx.text))

\* C19: when no registered transformer is recursive, every iteration of the
\* loops of format and formatRegex ends with the cursor beyond where it
\* began, no call runs more than len(text) iterations, and every call of
\* format returns.
SingleLevelTermination ==
    /\ [](AllFlat => FormatAdvances)
    /\ [][AllFlat => RegexAdvances]_vars
    /\ (AllFlat /\ Running) ~> (outF.kind = "returned")

\* both scans returned for a text in which one span was vetoed and one
\* committed
SingleLevelTerminationWitness ==
    /\ AllFlat
    /\ outF.kind = "returned"
    /\ outR.kind = "returned"
    /\ \E n, m \in 1..Len(log) :
          /\ log[n].fn = "format" /\ log[n].res = "veto"
          /\ log[m].fn = "format" /\ log[m].res = "commit"

=============================================================================
